---- MODULE Spec2Model ----
(***************************************************************************)
(* Feature clipping calibrators of calibration/feature_clipping.py:        *)
(*   "A"  ModelWithFeatureClipping      (one candidate, C = 0.01)          *)
(*   "B"  FeatureClippingCalibrator     (for q in range(2000))             *)
(*   "C"  FeatureClippingCalibrator2    (for q in range(4000))             *)
(*                                                                         *)
(* Numbers.  Thresholds and tensor elements are counted in hundredths, so  *)
(* the Python float q/100 is the integer q and 0.01 is 1.  float("inf") is *)
(* PosInf, a number above every finite value of the model, so the ordinary *)
(* integer order is the float order on it; NaN is a separate value that    *)
(* every float comparison answers False on (FGt).                          *)
(*                                                                         *)
(* The scan loops of B and C run StepsB and StepsC iterations here where   *)
(* the code runs 2000 and 4000.                                            *)
(***************************************************************************)
EXTENDS Integers, Sequences, FiniteSets

\* ---------------------------------------------------------------- bounds
StepsB == 3
StepsC == 4
TensorLen == 1

\* ------------------------------------------------------------- constants
PosInf == 1000000000
RunningBestA == 10000000

NegInf == 0 - PosInf
NaN == PosInf + 1

Variants == {"A", "B", "C"}
\* 'acc' stands for every criterion string other than 'ece' and 'nll'
Criteria == {"ece", "nll", "acc"}
\* finite metric values the loss component returns on a non-empty set
MetricVals == {0, RunningBestA}
\* tensor elements, in hundredths
ElemVals == {0 - 3, 0, 2}
Tensors == [1..TensorLen -> ElemVals]
\* weights of the external linear head of A and B
Weights == {0 - 1, 2}

VARIABLES
    variant,             \* the class of the calibrator instance
    weight,              \* the wrapped model's classifier head
    cross_validate,      \* self.cross_validate (B, C); the argument (A)
    feature_clip,        \* self.feature_clip
    feature_clip_bottom, \* self.feature_clip_bottom: {} until B/C's fit sets it
    pc,                  \* "unfit", "scan" (inside set_feature_clip), "fitted"
    empty,               \* the validation set of the running/last fit has N = 0
    entry_clip,          \* self.feature_clip when the running/last fit was called
    q,                   \* loop index
    C,                   \* A's local C
    nll_val, ece_val, C_opt_nll, C_opt_ece,
    cs, eces, nlls,      \* thresholds evaluated and the metrics observed there
    fresh,               \* a second instance, constructed anew for each fit and
                         \* fitted once on the same validation data
    ret                  \* the last call and what it returned

vars == <<variant, weight, cross_validate, feature_clip, feature_clip_bottom,
          pc, empty, entry_clip, q, C, nll_val, ece_val, C_opt_nll, C_opt_ece,
          cs, eces, nlls, fresh, ret>>

\* ---------------------------------------------------------------- floats
Min(a, b) == IF a < b THEN a ELSE b
Max(a, b) == IF a > b THEN a ELSE b

\* Python's a > b on floats
FGt(a, b) == a # NaN /\ b # NaN /\ a > b

\* torch.clamp(x, min=lo, max=hi) on one element
Clamp(x, lo, hi) == IF x = NaN THEN NaN ELSE Min(Max(x, lo), hi)

\* ------------------------------------------------------------ collaborators
\* nn.CrossEntropyLoss()(logits, labels).item(): the mean over no rows is NaN
NLLItem(isEmpty) == IF isEmpty THEN {NaN} ELSE MetricVals

\* ECELoss()(logits, labels).item(): undefined on no rows
ECEItem(isEmpty) == IF isEmpty THEN {NaN} ELSE MetricVals

\* self.classifier: the model's head (A, B), torch.nn.Identity() (C)
Classifier(v, w, x) == IF v = "C" THEN x ELSE [i \in DOMAIN x |-> w * x[i]]

\* ------------------------------------------------------------ the program
\* feature_clipping(features) with self.feature_clip = clip
ClipLow(x, clip) == [i \in DOMAIN x |-> Clamp(x[i], 0, clip)]
feature_clipping(x, clip) == [i \in DOMAIN x |-> Clamp(x[i], 0 - clip, clip)]

\* range(1), range(2000), range(4000)
StepCount(v) == CASE v = "A" -> 1 [] v = "B" -> StepsB [] v = "C" -> StepsC

LoopStopsEarly(v, i) == i + 1 < StepCount(v)
LoopContinues(v, i) == i < StepCount(v)

\* the threshold the iteration evaluates: q/100 (B, C), the local C (A)
CandidateBelow(v, i, c) == IF v = "A" THEN c ELSE i - 1
Candidate(v, i, c) == IF v = "A" THEN c ELSE i

\* nll_val = ece_val = 10 ** 7 (A), float("inf") (B, C)
InitBestInf(v) == PosInf
InitBest(v) == IF v = "A" THEN RunningBestA ELSE PosInf

\* the locals and self.feature_clip as the loop is entered from a calibrator
\* holding clip
EnterKeep(v, clip) ==
    [feature_clip |-> IF v = "A" THEN clip ELSE PosInf,
     nll_val |-> InitBest(v), ece_val |-> InitBest(v),
     C_opt_nll |-> clip, C_opt_ece |-> clip]
Enter(v, clip) ==
    [feature_clip |-> IF v = "A" THEN clip ELSE PosInf,
     nll_val |-> InitBest(v), ece_val |-> InitBest(v),
     C_opt_nll |-> PosInf, C_opt_ece |-> PosInf]

\* one iteration at threshold c with the metrics nll, ece observed there
Body(s, c, nll, ece) ==
    [feature_clip |-> c,
     nll_val   |-> IF FGt(s.nll_val, nll) THEN nll ELSE s.nll_val,
     C_opt_nll |-> IF FGt(s.nll_val, nll) THEN c ELSE s.C_opt_nll,
     ece_val   |-> IF FGt(s.ece_val, ece) THEN ece ELSE s.ece_val,
     C_opt_ece |-> IF FGt(s.ece_val, ece) THEN c ELSE s.C_opt_ece]

\* the threshold stored after the loop
Select(v, s, crit) ==
    IF crit = "ece" THEN s.C_opt_ece
    ELSE IF v = "A" \/ crit = "nll" THEN s.C_opt_nll
    ELSE s.feature_clip

Locals == [feature_clip |-> feature_clip, nll_val |-> nll_val, ece_val |-> ece_val,
           C_opt_nll |-> C_opt_nll, C_opt_ece |-> C_opt_ece]

Store(r) ==
    /\ feature_clip' = r.feature_clip
    /\ nll_val' = r.nll_val
    /\ ece_val' = r.ece_val
    /\ C_opt_nll' = r.C_opt_nll
    /\ C_opt_ece' = r.C_opt_ece

Ret(op, in, features, out, val) ==
    [op |-> op, in |-> in, features |-> features, out |-> out, val |-> val]

Idle == pc \in {"unfit", "fitted"}

Init ==
    /\ variant \in Variants
    /\ weight \in IF variant = "C" THEN {1} ELSE Weights
    /\ cross_validate \in IF variant = "A" THEN {"ece"} ELSE Criteria
    /\ feature_clip = PosInf
    /\ feature_clip_bottom = {}
    /\ pc = "unfit"
    /\ empty = FALSE
    /\ entry_clip = PosInf
    /\ q = 0
    /\ C = 1
    /\ nll_val = InitBest(variant)
    /\ ece_val = InitBest(variant)
    /\ C_opt_nll = PosInf
    /\ C_opt_ece = PosInf
    /\ cs = <<>>
    /\ eces = <<>>
    /\ nlls = <<>>
    /\ fresh = Enter(variant, PosInf)
    /\ ret = Ret("__init__", <<>>, <<>>, <<>>, 0)

\* set_feature_clip up to the loop
FitBegin ==
    /\ Idle
    /\ \E isEmpty \in BOOLEAN, crit \in Criteria :
        /\ ~(variant = "A" /\ isEmpty)
        /\ empty' = isEmpty
        /\ cross_validate' = IF variant = "A" THEN crit ELSE cross_validate
    /\ pc' = "scan"
    /\ entry_clip' = feature_clip
    /\ Store(Enter(variant, feature_clip))
    /\ fresh' = Enter(variant, PosInf)
    /\ feature_clip_bottom' = IF variant = "A" THEN feature_clip_bottom ELSE {NegInf}
    /\ q' = 0
    /\ C' = 1
    /\ cs' = <<>>
    /\ eces' = <<>>
    /\ nlls' = <<>>
    /\ ret' = Ret("set_feature_clip", <<>>, <<>>, <<>>, 0)
    /\ UNCHANGED <<variant, weight>>

\* A's set_feature_clip on a loader that yields no batch: torch.cat([]) raises
FitRaise ==
    /\ Idle
    /\ variant = "A"
    /\ ret' = Ret("RuntimeError", <<>>, <<>>, <<>>, 0)
    /\ UNCHANGED <<variant, weight, cross_validate, feature_clip, feature_clip_bottom,
                   pc, empty, entry_clip, q, C, nll_val, ece_val, C_opt_nll, C_opt_ece,
                   cs, eces, nlls, fresh>>

\* one iteration of the loop
ScanStep ==
    /\ pc = "scan"
    /\ LoopContinues(variant, q)
    /\ \E nll \in NLLItem(empty), ece \in ECEItem(empty) :
        LET c == Candidate(variant, q, C) IN
        /\ Store(Body(Locals, c, nll, ece))
        /\ fresh' = Body(fresh, c, nll, ece)
        /\ cs' = Append(cs, c)
        /\ eces' = Append(eces, ece)
        /\ nlls' = Append(nlls, nll)
    /\ q' = q + 1
    /\ C' = IF variant = "A" THEN C + 1 ELSE C
    /\ UNCHANGED <<variant, weight, cross_validate, feature_clip_bottom, pc, empty,
                   entry_clip, ret>>

\* the loop is over: the selection, and the return of self
FitEnd ==
    /\ pc = "scan"
    /\ ~LoopContinues(variant, q)
    /\ feature_clip' = Select(variant, Locals, cross_validate)
    /\ fresh' = [fresh EXCEPT !.feature_clip = Select(variant, fresh, cross_validate)]
    /\ pc' = "fitted"
    /\ ret' = Ret("self", <<>>, <<>>, <<>>, 0)
    /\ UNCHANGED <<variant, weight, cross_validate, feature_clip_bottom, empty,
                   entry_clip, q, C, nll_val, ece_val, C_opt_nll, C_opt_ece,
                   cs, eces, nlls>>

\* forward as written, and forward with a write to the threshold
ForwardStoring ==
    /\ Idle
    /\ \E x \in Tensors :
        LET features == feature_clipping(x, feature_clip) IN
        ret' = Ret("forward", x, features, Classifier(variant, weight, features), 0)
    /\ feature_clip' = 0
    /\ UNCHANGED <<variant, weight, cross_validate, feature_clip_bottom,
                   pc, empty, entry_clip, q, C, nll_val, ece_val, C_opt_nll, C_opt_ece,
                   cs, eces, nlls, fresh>>
Forward ==
    /\ Idle
    /\ \E x \in Tensors :
        LET features == feature_clipping(x, feature_clip) IN
        ret' = Ret("forward", x, features, Classifier(variant, weight, features), 0)
    /\ UNCHANGED <<variant, weight, cross_validate, feature_clip, feature_clip_bottom,
                   pc, empty, entry_clip, q, C, nll_val, ece_val, C_opt_nll, C_opt_ece,
                   cs, eces, nlls, fresh>>

GetFeatureClip ==
    /\ Idle
    /\ ret' = Ret("get_feature_clip", <<>>, <<>>, <<>>, feature_clip)
    /\ UNCHANGED <<variant, weight, cross_validate, feature_clip, feature_clip_bottom,
                   pc, empty, entry_clip, q, C, nll_val, ece_val, C_opt_nll, C_opt_ece,
                   cs, eces, nlls, fresh>>

Next ==
    \/ FitBegin
    \/ FitRaise
    \/ ScanStep
    \/ FitEnd
    \/ Forward
    \/ GetFeatureClip

Spec == Init /\ [][Next]_vars

FairSpec == Spec /\ WF_vars(ScanStep) /\ WF_vars(FitEnd)

\* ---------------------------------------------------------------- claims
\* Python's a <= b on floats
FLe(a, b) == a # NaN /\ b # NaN /\ a <= b

\* the metric the criterion selects, as observed during the last scan
Observed == IF cross_validate = "ece" THEN eces ELSE nlls

Scanned == {cs[i] : i \in DOMAIN cs}

\* C1: after a completed fit of B or C with criterion 'ece' (resp. 'nll') the
\* stored threshold is the smallest scanned candidate whose ECE (resp. NLL) is
\* the minimum over all scanned candidates: its metric is <= the metric at
\* every scanned candidate and no earlier candidate has the same metric.
C1_FirstMinimumChosen ==
    (pc = "fitted" /\ variant \in {"B", "C"} /\ cross_validate \in {"ece", "nll"}) =>
        \E i \in DOMAIN cs :
            /\ feature_clip = cs[i]
            /\ \A j \in DOMAIN cs : FLe(Observed[i], Observed[j])
            /\ \A j \in 1..(i - 1) : Observed[j] # Observed[i]

\* C2: after any completed fit of any variant, whatever the metrics and the
\* criterion, the stored threshold is one of the scanned candidates.
C2_ThresholdIsScanned == pc = "fitted" => feature_clip \in Scanned

\* C3: at the end of fit the threshold is best-threshold-for-ece when the
\* criterion is 'ece' and best-threshold-for-nll for every other criterion,
\* in each of the three variants.
C3_SelectByCriterion ==
    pc = "fitted" =>
        feature_clip = IF cross_validate = "ece" THEN C_opt_ece ELSE C_opt_nll

\* C4: in every reachable state (constructed, inside the scan loop, after any
\* fits and forwards) the threshold is a number >= 0, and before the first fit
\* it is +infinity.
C4_ThresholdNonNegative ==
    /\ feature_clip # NaN
    /\ feature_clip >= 0
    /\ pc = "unfit" => feature_clip = PosInf

C4_Witness == pc = "scan" /\ q >= 1 /\ feature_clip = 0 /\ entry_clip # PosInf

\* C5: a forward or get_feature_clip call changes neither the threshold nor any
\* other field of the calibrator, and leaves it UNFIT or FITTED as it was.
C5_ForwardIsReadOnly ==
    [][(ret'.op \in {"forward", "get_feature_clip"} /\ ret' # ret) =>
          UNCHANGED <<feature_clip, feature_clip_bottom, cross_validate, pc,
                      variant, weight>>]_vars

C5_Witness ==
    /\ ret.op = "forward"
    /\ pc = "fitted"
    /\ feature_clip = 0
    /\ \E i \in DOMAIN ret.in : ret.in[i] # ret.features[i]

\* C6: a fit on an empty validation set does not complete normally.
C6_EmptyFitFails == ~(pc = "fitted" /\ empty)

\* C7: the threshold a fit leaves is the one a freshly constructed calibrator
\* of the same class leaves when it is fitted once on the same validation data
\* with the same criterion, whatever threshold was held before the call.
C7_RefitOverwrites == pc = "fitted" => feature_clip = fresh.feature_clip

C7_Witness ==
    /\ pc = "fitted"
    /\ entry_clip # PosInf
    /\ feature_clip # entry_clip

\* C8: with threshold +infinity the clipping transform returns its input
\* elementwise, so forward returns classifier(X) (X itself for C); this is the
\* case of every never-fitted calibrator.
C8_InfIsIdentity ==
    (ret.op = "forward" /\ (pc = "unfit" \/ feature_clip = PosInf)) =>
        /\ ret.features = ret.in
        /\ ret.out = Classifier(variant, weight, ret.in)

C8_Witness ==
    /\ ret.op = "forward"
    /\ pc = "unfit"
    /\ \E i \in DOMAIN ret.in : ret.in[i] < 0

\* the evaluated candidates of B and C: 0 .. q-1 inside the loop, in this
\* order, and 0 .. step_count-1 after it
C9_ScanOrder ==
    variant \in {"B", "C"} =>
        /\ q <= StepCount(variant)
        /\ pc = "scan" => cs = [i \in 1..q |-> i - 1]
        /\ pc = "fitted" => cs = [i \in 1..StepCount(variant) |-> i - 1]

\* C9: a fit of B or C evaluates the candidates q = 0 .. step_count-1 once each
\* in increasing order starting at 0, whatever metrics it observes, never
\* leaving the loop early, and every fit in progress ends.
C9_FullOrderedScan == []C9_ScanOrder /\ ((pc = "scan") ~> (pc = "fitted"))

C9_Witness ==
    /\ pc = "fitted"
    /\ variant = "C"
    /\ Len(cs) = StepsC
    /\ FGt(eces[2], eces[1])
    /\ FGt(nlls[2], nlls[1])

\* C10: A evaluates exactly one candidate, 0.01, and never 0; after it
\* completes the threshold is 0.01 when the selected metric at 0.01 is below
\* 10^7 and +infinity otherwise.
C10_VariantAOneStep ==
    variant = "A" =>
        /\ \A i \in DOMAIN cs : cs[i] # 0
        /\ pc = "fitted" =>
            /\ cs = <<1>>
            /\ feature_clip = IF FGt(RunningBestA, Observed[1]) THEN 1 ELSE PosInf

C10_Witness ==
    /\ variant = "A"
    /\ pc = "fitted"
    /\ cross_validate = "nll"
    /\ nlls = <<RunningBestA>>
    /\ eces = <<0>>
    /\ feature_clip = PosInf
    /\ entry_clip = 1

====
